---- MODULE Spec2Model ----
(***************************************************************************)
(* rusty-sodalite: the padding codec (padding_helpers.rs) and the safe     *)
(* wrappers safe_box, safe_secretbox and safe_sign around the sodalite      *)
(* primitives.  The wrappers are translated from the Rust source.  The     *)
(* sodalite primitives are an external crate: they are modelled by the     *)
(* NaCl calling convention the source comments quote (zero prefixes,       *)
(* same-size buffers, failure as a result value), over a small byte        *)
(* alphabet and symbolic keys.                                             *)
(***************************************************************************)
EXTENDS Integers, Sequences, FiniteSets, TLC

VARIABLES value, first, second

vars == <<value, first, second>>

(* ------------------------------ bounds --------------------------------- *)

\* bytes range over 0..MaxByte
MaxByte == 1
\* caller-supplied buffers of every content have length 0..MaxLen
MaxLen == 2
\* padding sizes exercised on the codec are 0..MaxPad
MaxPad == 3
\* nonces are 0..MaxNonce
MaxNonce == 1
\* seeds and secretbox keys are 1..MaxSeed
MaxSeed == 2

(* -------------------------- program constants -------------------------- *)

BOX_ZEROBYTES == 32
BOX_BOXZEROBYTES == 16
SECRETBOX_ZEROBYTES == 32
SECRETBOX_BOXZEROBYTES == 16
\* sodalite::SIGN_LEN
SIGN_LEN == 64

(* ------------------------------ domains -------------------------------- *)

ByteMod == MaxByte + 1
Byte == 0..MaxByte
Sizes == 0..MaxPad
Nonces == 0..MaxNonce
Seeds == 1..MaxSeed

\* vec![b; n]
Rep(b, n) == [i \in 1..n |-> b]

ShortBuffers == UNION {[1..n -> Byte] : n \in 0..MaxLen}

\* buffers around the lengths the wrappers treat specially
EdgeLens == {BOX_BOXZEROBYTES - 1, BOX_BOXZEROBYTES, BOX_BOXZEROBYTES + 1,
             SIGN_LEN - 1, SIGN_LEN, SIGN_LEN + 1}
EdgeBuffers == {Rep(b, n) : b \in Byte, n \in EdgeLens}

Buffers == ShortBuffers \cup EdgeBuffers

\* the messages handed to the sealing calls
Messages == ShortBuffers

\* Option<Box<[u8]>>, and the outcome of a call that can panic
None == [tag |-> "None"]
Some(v) == [tag |-> "Some", val |-> v]
Panic(msg) == [tag |-> "Panic", msg |-> msg]
\* a plain (non-optional) return value
Value(v) == [tag |-> "Value", val |-> v]

(* --------------------------- padding codec ----------------------------- *)

\* concatenation in the wrong order
pad_zeroes_append(size, unpadded) == unpadded \o Rep(0, size)

pad_zeroes(size, unpadded) ==
    LET padding == Rep(0, size)
    IN  padding \o unpadded

\* the prefix is removed without being checked
unpad_zeroes_nocheck(size, padded) ==
    IF size <= Len(padded)
    THEN Some(SubSeq(padded, size + 1, Len(padded)))
    ELSE None

\* size < padded.len() in place of size <= padded.len()
unpad_zeroes_strict(size, padded) ==
    IF size < Len(padded)
    THEN LET padding == SubSeq(padded, 1, size)
             unpadded == SubSeq(padded, size + 1, Len(padded))
         IN  IF \A i \in 1..Len(padding) : padding[i] = 0
             THEN Some(unpadded)
             ELSE None
    ELSE None

unpad_zeroes(size, padded) ==
    IF size <= Len(padded)
    THEN LET padding == SubSeq(padded, 1, size)
             unpadded == SubSeq(padded, size + 1, Len(padded))
         IN  IF \A i \in 1..Len(padding) : padding[i] = 0
             THEN Some(unpadded)
             ELSE None
    ELSE None

(* ------------------- sodalite primitives (external) -------------------- *)

RECURSIVE SumSeq(_)
SumSeq(s) == IF s = <<>> THEN 0 ELSE Head(s) + SumSeq(Tail(s))

\* outcome of a primitive: Ok with the output buffer, Err, or a failed
\* buffer-size assertion
Ok(buf) == [tag |-> "Ok", buf |-> buf]
Err == [tag |-> "Err"]
Abort == [tag |-> "Abort"]

\* X25519: a public key is the base point raised to the secret scalar and
\* the shared key of (pk_b, sk_a) equals that of (pk_a, sk_b)
box_keypair_seed(seed) == [public_key |-> [point |-> seed], secret_key |-> seed]
box_beforenm(public_key, secret_key) == public_key.point * secret_key

\* byte i of the key stream of nonce n under key k
stream_xsalsa20(n, k, i) == (n + k + i) % ByteMod

\* length of the authenticator kept after the ciphertext zero prefix
TagLen == SECRETBOX_ZEROBYTES - SECRETBOX_BOXZEROBYTES

\* one-time authenticator of body under the one-time key (r, s)
onetimeauth(body, otk) ==
    [j \in 1..TagLen |-> (otk[TagLen + j] + otk[j] * SumSeq(body)) % ByteMod]

secretbox(c_len, m, n, k) ==
    IF c_len # Len(m) THEN Abort
    ELSE IF Len(m) < SECRETBOX_ZEROBYTES THEN Err
    ELSE LET x == [i \in 1..Len(m) |-> (m[i] + stream_xsalsa20(n, k, i)) % ByteMod]
             body == SubSeq(x, SECRETBOX_ZEROBYTES + 1, Len(m))
             mac == onetimeauth(body, SubSeq(x, 1, SECRETBOX_ZEROBYTES))
         IN  Ok(Rep(0, SECRETBOX_BOXZEROBYTES) \o mac \o body)

secretbox_open(m_len, c, n, k) ==
    IF m_len # Len(c) THEN Abort
    ELSE IF Len(c) < SECRETBOX_ZEROBYTES THEN Err
    ELSE LET x == [i \in 1..SECRETBOX_ZEROBYTES |-> stream_xsalsa20(n, k, i)]
             body == SubSeq(c, SECRETBOX_ZEROBYTES + 1, Len(c))
             mac == SubSeq(c, SECRETBOX_BOXZEROBYTES + 1, SECRETBOX_ZEROBYTES)
         IN  IF onetimeauth(body, x) # mac THEN Err
             ELSE Ok(Rep(0, SECRETBOX_ZEROBYTES) \o
                     [i \in 1..Len(body) |->
                        (body[i] + ByteMod
                           - stream_xsalsa20(n, k, SECRETBOX_ZEROBYTES + i)) % ByteMod])

box_(c_len, m, n, public_key, secret_key) ==
    secretbox(c_len, m, n, box_beforenm(public_key, secret_key))

box_open(m_len, c, n, public_key, secret_key) ==
    secretbox_open(m_len, c, n, box_beforenm(public_key, secret_key))

sign_keypair_seed(seed) == [public_key |-> [edpoint |-> seed], secret_key |-> seed]

\* the SIGN_LEN signature bytes of message m under the key of seed s
signature(m, s) == [j \in 1..SIGN_LEN |-> (s + j + SumSeq(m)) % ByteMod]

sign_attached(sm_len, m, secret_key) ==
    IF sm_len # Len(m) + SIGN_LEN THEN Abort
    ELSE Ok(signature(m, secret_key) \o m)

\* On success the message is moved to the front of the output buffer, whose
\* last SIGN_LEN bytes keep the work area; the verified length is returned.
sign_attached_open(m_len, sm, public_key) ==
    IF m_len # Len(sm) THEN Abort
    ELSE IF Len(sm) < SIGN_LEN THEN Err
    ELSE LET msg == SubSeq(sm, SIGN_LEN + 1, Len(sm))
             work == SubSeq(sm, 1, 32) \o Rep(public_key.edpoint % ByteMod, 32) \o msg
         IN  IF SubSeq(sm, 1, SIGN_LEN) # signature(msg, public_key.edpoint) THEN Err
             ELSE [tag |-> "Ok", len |-> Len(msg),
                   buf |-> [i \in 1..Len(sm) |-> IF i <= Len(msg) THEN msg[i] ELSE work[i]]]

(* ------------------------------ safe_box ------------------------------- *)

safe_box_keypair_seed(seed) == box_keypair_seed(seed)

\* Each wrapper yields the record of its execution: the buffer handed to the
\* primitive, the length of the output buffer allocated for it, the
\* primitive's outcome and the value returned (or the panic).
safe_box(plaintext, nonce, public_key, secret_key) ==
    LET padded_plaintext == pad_zeroes(BOX_ZEROBYTES, plaintext)
        padded_ciphertext_len == Len(padded_plaintext)
        r == box_(padded_ciphertext_len, padded_plaintext, nonce, public_key, secret_key)
        u == unpad_zeroes(BOX_BOXZEROBYTES, r.buf)
    IN  [input |-> padded_plaintext, out_len |-> padded_ciphertext_len, prim |-> r.tag,
         ret |-> IF r.tag = "Abort" THEN Panic("box_: buffer sizes differ")
                 ELSE IF r.tag = "Err" THEN Panic("safe_box: box_ failed!")
                 ELSE IF u.tag = "None" THEN Panic("safe_box: unpad_zeroes failed!")
                 ELSE Value(u.val)]

\* the plaintext is unpadded with the ciphertext padding size
safe_box_open_wrongpad(ciphertext, nonce, public_key, secret_key) ==
    LET padded_ciphertext == pad_zeroes(BOX_BOXZEROBYTES, ciphertext)
        padded_plaintext_len == Len(padded_ciphertext)
        r == box_open(padded_plaintext_len, padded_ciphertext, nonce, public_key, secret_key)
    IN  [input |-> padded_ciphertext, out_len |-> padded_plaintext_len, prim |-> r.tag,
         ret |-> IF r.tag = "Abort" THEN Panic("box_open: buffer sizes differ")
                 ELSE IF r.tag = "Err" THEN None
                 ELSE unpad_zeroes(BOX_BOXZEROBYTES, r.buf)]

\* the output buffer is sized by the unpadded ciphertext
safe_box_open_outlen(ciphertext, nonce, public_key, secret_key) ==
    LET padded_ciphertext == pad_zeroes(BOX_BOXZEROBYTES, ciphertext)
        padded_plaintext_len == Len(ciphertext)
        r == box_open(padded_plaintext_len, padded_ciphertext, nonce, public_key, secret_key)
    IN  [input |-> padded_ciphertext, out_len |-> padded_plaintext_len, prim |-> r.tag,
         ret |-> IF r.tag = "Abort" THEN Panic("box_open: buffer sizes differ")
                 ELSE IF r.tag = "Err" THEN None
                 ELSE unpad_zeroes(BOX_ZEROBYTES, r.buf)]

safe_box_open(ciphertext, nonce, public_key, secret_key) ==
    LET padded_ciphertext == pad_zeroes(BOX_BOXZEROBYTES, ciphertext)
        padded_plaintext_len == Len(padded_ciphertext)
        r == box_open(padded_plaintext_len, padded_ciphertext, nonce, public_key, secret_key)
    IN  [input |-> padded_ciphertext, out_len |-> padded_plaintext_len, prim |-> r.tag,
         ret |-> IF r.tag = "Abort" THEN Panic("box_open: buffer sizes differ")
                 ELSE IF r.tag = "Err" THEN None
                 ELSE unpad_zeroes(BOX_ZEROBYTES, r.buf)]

(* ---------------------------- safe_secretbox --------------------------- *)

\* the plaintext is padded with the ciphertext padding size
safe_secretbox_shortpad(plaintext, nonce, key) ==
    LET padded_plaintext == pad_zeroes(SECRETBOX_BOXZEROBYTES, plaintext)
        padded_ciphertext_len == Len(padded_plaintext)
        r == secretbox(padded_ciphertext_len, padded_plaintext, nonce, key)
        u == unpad_zeroes(SECRETBOX_BOXZEROBYTES, r.buf)
    IN  [input |-> padded_plaintext, out_len |-> padded_ciphertext_len, prim |-> r.tag,
         ret |-> IF r.tag = "Abort" THEN Panic("secretbox: buffer sizes differ")
                 ELSE IF r.tag = "Err" THEN Panic("safe_secretbox: secretbox failed!")
                 ELSE IF u.tag = "None" THEN Panic("safe_secretbox: unpad_zeroes failed!")
                 ELSE Value(u.val)]

safe_secretbox(plaintext, nonce, key) ==
    LET padded_plaintext == pad_zeroes(SECRETBOX_ZEROBYTES, plaintext)
        padded_ciphertext_len == Len(padded_plaintext)
        r == secretbox(padded_ciphertext_len, padded_plaintext, nonce, key)
        u == unpad_zeroes(SECRETBOX_BOXZEROBYTES, r.buf)
    IN  [input |-> padded_plaintext, out_len |-> padded_ciphertext_len, prim |-> r.tag,
         ret |-> IF r.tag = "Abort" THEN Panic("secretbox: buffer sizes differ")
                 ELSE IF r.tag = "Err" THEN Panic("safe_secretbox: secretbox failed!")
                 ELSE IF u.tag = "None" THEN Panic("safe_secretbox: unpad_zeroes failed!")
                 ELSE Value(u.val)]

\* the ciphertext is handed to the primitive without its zero prefix
safe_secretbox_open_nopad(ciphertext, nonce, key) ==
    LET padded_ciphertext == ciphertext
        padded_plaintext_len == Len(padded_ciphertext)
        r == secretbox_open(padded_plaintext_len, padded_ciphertext, nonce, key)
    IN  [input |-> padded_ciphertext, out_len |-> padded_plaintext_len, prim |-> r.tag,
         res |-> r,
         ret |-> IF r.tag = "Abort" THEN Panic("secretbox_open: buffer sizes differ")
                 ELSE IF r.tag = "Err" THEN None
                 ELSE unpad_zeroes(BOX_ZEROBYTES, r.buf)]

\* the plaintext is unpadded with the ciphertext padding size
safe_secretbox_open_wrongstrip(ciphertext, nonce, key) ==
    LET padded_ciphertext == pad_zeroes(BOX_BOXZEROBYTES, ciphertext)
        padded_plaintext_len == Len(padded_ciphertext)
        r == secretbox_open(padded_plaintext_len, padded_ciphertext, nonce, key)
    IN  [input |-> padded_ciphertext, out_len |-> padded_plaintext_len, prim |-> r.tag,
         res |-> r,
         ret |-> IF r.tag = "Abort" THEN Panic("secretbox_open: buffer sizes differ")
                 ELSE IF r.tag = "Err" THEN None
                 ELSE unpad_zeroes(BOX_BOXZEROBYTES, r.buf)]

\* the source pads and unpads here with the BOX_ constants
safe_secretbox_open(ciphertext, nonce, key) ==
    LET padded_ciphertext == pad_zeroes(BOX_BOXZEROBYTES, ciphertext)
        padded_plaintext_len == Len(padded_ciphertext)
        r == secretbox_open(padded_plaintext_len, padded_ciphertext, nonce, key)
    IN  [input |-> padded_ciphertext, out_len |-> padded_plaintext_len, prim |-> r.tag,
         res |-> r,
         ret |-> IF r.tag = "Abort" THEN Panic("secretbox_open: buffer sizes differ")
                 ELSE IF r.tag = "Err" THEN None
                 ELSE unpad_zeroes(BOX_ZEROBYTES, r.buf)]

(* ------------------------------ safe_sign ------------------------------ *)

safe_sign_keypair_seed(seed) == sign_keypair_seed(seed)

safe_sign_attached(unsigned_message, secret_key) ==
    LET signed_message_len == Len(unsigned_message) + SIGN_LEN
        r == sign_attached(signed_message_len, unsigned_message, secret_key)
    IN  [input |-> unsigned_message, out_len |-> signed_message_len, prim |-> r.tag,
         ret |-> IF r.tag = "Abort" THEN Panic("sign_attached: buffer sizes differ")
                 ELSE Value(r.buf)]

\* Vec::truncate(len): keeps the first len elements, no effect if len >= Len
truncate(v, len) == IF len >= Len(v) THEN v ELSE SubSeq(v, 1, len)

\* the truncation to the verified length is skipped
safe_sign_attached_open_notrunc(signed_message, public_key) ==
    LET verified_message_len == Len(signed_message)
        r == sign_attached_open(verified_message_len, signed_message, public_key)
    IN  [input |-> signed_message, out_len |-> verified_message_len, prim |-> r.tag,
         res |-> r,
         ret |-> IF r.tag = "Abort" THEN Panic("sign_attached_open: buffer sizes differ")
                 ELSE IF r.tag = "Err" THEN None
                 ELSE Some(r.buf)]

\* the output buffer is sized for the message without its signature
safe_sign_attached_open_alloc(signed_message, public_key) ==
    LET verified_message_len == IF Len(signed_message) >= SIGN_LEN
                                THEN Len(signed_message) - SIGN_LEN ELSE 0
        r == sign_attached_open(verified_message_len, signed_message, public_key)
    IN  [input |-> signed_message, out_len |-> verified_message_len, prim |-> r.tag,
         res |-> r,
         ret |-> IF r.tag = "Abort" THEN Panic("sign_attached_open: buffer sizes differ")
                 ELSE IF r.tag = "Err" THEN None
                 ELSE IF ~(r.len <= Len(r.buf))
                      THEN Panic("assertion failed: verified_len <= verified_message.len()")
                 ELSE Some(truncate(r.buf, r.len))]

safe_sign_attached_open(signed_message, public_key) ==
    LET verified_message_len == Len(signed_message)
        r == sign_attached_open(verified_message_len, signed_message, public_key)
    IN  [input |-> signed_message, out_len |-> verified_message_len, prim |-> r.tag,
         res |-> r,
         ret |-> IF r.tag = "Abort" THEN Panic("sign_attached_open: buffer sizes differ")
                 ELSE IF r.tag = "Err" THEN None
                 ELSE IF ~(r.len <= Len(r.buf))
                      THEN Panic("assertion failed: verified_len <= verified_message.len()")
                 ELSE Some(truncate(r.buf, r.len))]

(* --------------------------- the call harness -------------------------- *)

\* value is the caller's buffer; first is the sealing-side call made on it
\* (pad_zeroes, safe_box, safe_secretbox, safe_sign_attached) and second the
\* opening-side call (unpad_zeroes, safe_box_open, safe_secretbox_open,
\* safe_sign_attached_open) with everything passed to and returned by them.
Idle == [op |-> "idle"]

\* buf with byte i changed by d
Tamper(buf, i, d) == [buf EXCEPT ![i] = (@ + d) % ByteMod]

\* the buffers an opening call named by sealer's counterpart is tried on:
\* the caller's raw buffer, or what the sealing call returned, intact or
\* with one byte changed
OpenInputs(sealer) ==
    IF first.op = "idle" THEN {[source |-> "raw", buf |-> value]}
    ELSE IF first.op = sealer /\ first.run.ret.tag = "Value"
    THEN LET c == first.run.ret.val
         IN  {[source |-> "sealed", buf |-> c]} \cup
             {[source |-> "tampered", buf |-> Tamper(c, i, d)] :
                 i \in 1..Len(c), d \in 1..MaxByte}
    ELSE {}

Init ==
    /\ value \in Buffers
    /\ first = Idle
    /\ second = Idle

PadZeroes ==
    /\ first = Idle /\ second = Idle
    /\ \E size \in Sizes :
         first' = [op |-> "pad_zeroes", size |-> size, out |-> pad_zeroes(size, value)]
    /\ UNCHANGED <<value, second>>

UnpadZeroes ==
    /\ second = Idle
    /\ first.op \in {"idle", "pad_zeroes"}
    /\ \E size \in Sizes :
         LET padded == IF first.op = "idle" THEN value ELSE first.out
         IN  second' = [op |-> "unpad_zeroes", size |-> size, input |-> padded,
                        out |-> unpad_zeroes(size, padded)]
    /\ UNCHANGED <<value, first>>

SafeBox ==
    /\ first = Idle /\ second = Idle
    /\ value \in Messages
    /\ \E nonce \in Nonces, sender \in Seeds, receiver \in Seeds :
         first' = [op |-> "safe_box", nonce |-> nonce,
                   sender |-> sender, receiver |-> receiver,
                   run |-> safe_box(value, nonce,
                                    safe_box_keypair_seed(receiver).public_key,
                                    safe_box_keypair_seed(sender).secret_key)]
    /\ UNCHANGED <<value, second>>

SafeBoxOpen ==
    /\ second = Idle
    /\ \E in \in OpenInputs("safe_box"), nonce \in Nonces,
          sender \in Seeds, receiver \in Seeds :
         \* a tampered ciphertext is opened with the nonce and keys of the seal
         /\ in.source = "tampered" =>
              /\ nonce = first.nonce
              /\ sender = first.sender
              /\ receiver = first.receiver
         /\ second' = [op |-> "safe_box_open", source |-> in.source, input |-> in.buf,
                       nonce |-> nonce, sender |-> sender, receiver |-> receiver,
                       run |-> safe_box_open(in.buf, nonce,
                                             safe_box_keypair_seed(sender).public_key,
                                             safe_box_keypair_seed(receiver).secret_key)]
    /\ UNCHANGED <<value, first>>

SafeSecretbox ==
    /\ first = Idle /\ second = Idle
    /\ value \in Messages
    /\ \E nonce \in Nonces, key \in Seeds :
         first' = [op |-> "safe_secretbox", nonce |-> nonce, key |-> key,
                   run |-> safe_secretbox(value, nonce, key)]
    /\ UNCHANGED <<value, second>>

SafeSecretboxOpen ==
    /\ second = Idle
    /\ \E in \in OpenInputs("safe_secretbox"), nonce \in Nonces, key \in Seeds :
         /\ in.source = "tampered" => nonce = first.nonce /\ key = first.key
         /\ second' = [op |-> "safe_secretbox_open", source |-> in.source,
                       input |-> in.buf, nonce |-> nonce, key |-> key,
                       run |-> safe_secretbox_open(in.buf, nonce, key)]
    /\ UNCHANGED <<value, first>>

SafeSignAttached ==
    /\ first = Idle /\ second = Idle
    /\ value \in Messages
    /\ \E seed \in Seeds :
         first' = [op |-> "safe_sign_attached", seed |-> seed,
                   run |-> safe_sign_attached(value,
                                              safe_sign_keypair_seed(seed).secret_key)]
    /\ UNCHANGED <<value, second>>

SafeSignAttachedOpen ==
    /\ second = Idle
    /\ \E in \in OpenInputs("safe_sign_attached"), seed \in Seeds :
         /\ in.source = "tampered" => seed = first.seed
         /\ second' = [op |-> "safe_sign_attached_open", source |-> in.source,
                       input |-> in.buf, seed |-> seed,
                       run |-> safe_sign_attached_open(in.buf,
                                   safe_sign_keypair_seed(seed).public_key)]
    /\ UNCHANGED <<value, first>>

Next ==
    \/ PadZeroes
    \/ UnpadZeroes
    \/ SafeBox
    \/ SafeBoxOpen
    \/ SafeSecretbox
    \/ SafeSecretboxOpen
    \/ SafeSignAttached
    \/ SafeSignAttachedOpen

Spec == Init /\ [][Next]_vars

(* ------------------------------ properties ----------------------------- *)

AllZero(s) == \A i \in 1..Len(s) : s[i] = 0

\* the bytes of b after its first n
After(b, n) == [i \in 1..(Len(b) - n) |-> b[n + i]]

OpenOps == {"safe_box_open", "safe_secretbox_open", "safe_sign_attached_open"}

\* C1: unpad_zeroes(s, pad_zeroes(s, x)) = Some(x) for every size s and
\* buffer x: removing the prefix that was just added gives x back.
C1_PadUnpadRoundTrip ==
    (/\ first.op = "pad_zeroes"
     /\ second.op = "unpad_zeroes"
     /\ second.size = first.size)
    => second.out = Some(value)

C1_Witness ==
    /\ first.op = "pad_zeroes" /\ first.size > 0
    /\ second.op = "unpad_zeroes" /\ second.size = first.size
    /\ \E i \in 1..Len(value) : value[i] # 0
    /\ second.out = Some(value)

\* C2: unpad_zeroes(size, b) is Some(the bytes of b after the first size)
\* exactly when size <= Len(b) and the first size bytes of b are all zero,
\* and None in every other case.
C2_UnpadExact ==
    second.op = "unpad_zeroes" =>
        LET b == second.input
            size == second.size
        IN  IF size <= Len(b) /\ \A i \in 1..size : b[i] = 0
            THEN second.out = Some(After(b, size))
            ELSE second.out = None

C2_Witness ==
    /\ second.op = "unpad_zeroes"
    /\ second.size <= Len(second.input)
    /\ \E i \in 1..second.size : second.input[i] # 0
    /\ second.out = None

\* C3: pad_zeroes(s, x) has length Len(x) + s, its first s bytes are zero
\* and the rest is x in the same order.
C3_PadShape ==
    first.op = "pad_zeroes" =>
        /\ Len(first.out) = Len(value) + first.size
        /\ \A i \in 1..first.size : first.out[i] = 0
        /\ \A i \in 1..Len(value) : first.out[first.size + i] = value[i]

C3_Witness ==
    /\ first.op = "pad_zeroes" /\ first.size > 0
    /\ \E i \in 1..Len(value) : value[i] # 0
    /\ Len(first.out) = Len(value) + first.size

\* C4: with size 0 both codec operations are the identity, the empty buffer
\* included: pad_zeroes(0, x) = x and unpad_zeroes(0, x) = Some(x).
C4_ZeroSizeIdentity ==
    /\ (first.op = "pad_zeroes" /\ first.size = 0) => first.out = value
    /\ (second.op = "unpad_zeroes" /\ second.size = 0) => second.out = Some(second.input)

C4_Witness ==
    /\ value = <<>>
    /\ first.op = "pad_zeroes" /\ first.size = 0 /\ first.out = <<>>
    /\ second.op = "unpad_zeroes" /\ second.size = 0 /\ second.out = Some(<<>>)

\* C5: for distinct seeds A (sender) and B (receiver), any nonce n and any
\* plaintext m, safe_box_open(safe_box(m, n, pkB, skA), n, pkA, skB) = Some(m).
C5_BoxRoundTrip ==
    (/\ first.op = "safe_box"
     /\ second.op = "safe_box_open" /\ second.source = "sealed"
     /\ first.sender # first.receiver
     /\ second.nonce = first.nonce
     /\ second.sender = first.sender
     /\ second.receiver = first.receiver)
    => second.run.ret = Some(value)

C5_Witness ==
    /\ first.op = "safe_box"
    /\ second.op = "safe_box_open" /\ second.source = "sealed"
    /\ first.sender # first.receiver
    /\ second.nonce = first.nonce
    /\ second.sender = first.sender
    /\ second.receiver = first.receiver
    /\ \E i \in 1..Len(value) : value[i] # 0
    /\ second.run.ret = Some(value)

\* C6: for any key k, nonce n and plaintext m,
\* safe_secretbox_open(safe_secretbox(m, n, k), n, k) = Some(m).
C6_SecretboxRoundTrip ==
    (/\ first.op = "safe_secretbox"
     /\ second.op = "safe_secretbox_open" /\ second.source = "sealed"
     /\ second.nonce = first.nonce
     /\ second.key = first.key)
    => second.run.ret = Some(value)

C6_Witness ==
    /\ first.op = "safe_secretbox"
    /\ second.op = "safe_secretbox_open" /\ second.source = "sealed"
    /\ second.nonce = first.nonce
    /\ second.key = first.key
    /\ \E i \in 1..Len(value) : value[i] # 0
    /\ second.run.ret = Some(value)

\* C7: for the keypair (pk, sk) of any seed and any message m,
\* safe_sign_attached_open(safe_sign_attached(m, sk), pk) = Some(m): the
\* signature bytes are stripped and exactly m remains.
C7_SignRoundTrip ==
    (/\ first.op = "safe_sign_attached"
     /\ second.op = "safe_sign_attached_open" /\ second.source = "sealed"
     /\ second.seed = first.seed)
    => second.run.ret = Some(value)

C7_Witness ==
    /\ first.op = "safe_sign_attached"
    /\ second.op = "safe_sign_attached_open" /\ second.source = "sealed"
    /\ second.seed = first.seed
    /\ Len(second.input) = Len(value) + SIGN_LEN
    /\ \E i \in 1..Len(value) : value[i] # 0
    /\ second.run.ret = Some(value)

\* C8: on every input buffer, nonce and key the three opening calls return
\* Some(..) or None and never panic, and they return None whenever the
\* primitive signals failure.
C8_OpenNeverPanics ==
    second.op \in OpenOps =>
        /\ second.run.ret.tag \in {"Some", "None"}
        /\ second.run.prim = "Err" => second.run.ret = None

C8_Witness ==
    /\ second.op \in OpenOps
    /\ second.source = "raw"
    /\ Len(second.input) < BOX_BOXZEROBYTES
    /\ second.run.prim = "Err"
    /\ second.run.ret = None

\* C10: safe_box and safe_secretbox hand the primitive an input of length
\* Len(m) + 32 whose first 32 bytes are zero and an output buffer of the same
\* length; the primitive succeeds, the 16-byte zero prefix is stripped and a
\* ciphertext of length Len(m) + 16 is returned without a panic.
C10_SealBuffers ==
    first.op \in {"safe_box", "safe_secretbox"} =>
        /\ Len(first.run.input) = Len(value) + 32
        /\ AllZero(SubSeq(first.run.input, 1, 32))
        /\ After(first.run.input, 32) = value
        /\ first.run.out_len = Len(first.run.input)
        /\ first.run.prim = "Ok"
        /\ first.run.ret.tag = "Value"
        /\ Len(first.run.ret.val) = Len(value) + 16

C10_Witness ==
    /\ first.op = "safe_secretbox"
    /\ value = <<>>
    /\ first.run.prim = "Ok"
    /\ first.run.ret.tag = "Value"
    /\ Len(first.run.ret.val) = 16

\* C11: safe_sign_attached_open allocates the output buffer at the length of
\* the signed message; whenever the primitive succeeds with verified length
\* L, L is at most that length (the assertion holds) and the returned
\* message is exactly the first L bytes of the output buffer, so its length
\* is L and not the length of the signed message.
C11_VerifiedTruncation ==
    second.op = "safe_sign_attached_open" =>
        /\ second.run.out_len = Len(second.input)
        /\ (second.run.prim = "Ok" =>
              /\ Len(second.run.res.buf) = second.run.out_len
              /\ second.run.res.len <= second.run.out_len
              /\ second.run.ret = Some(SubSeq(second.run.res.buf, 1, second.run.res.len))
              /\ Len(second.run.ret.val) = second.run.res.len
              /\ Len(second.run.ret.val) # Len(second.input))

C11_Witness ==
    /\ second.op = "safe_sign_attached_open"
    /\ second.run.prim = "Ok"
    /\ second.run.res.len > 0
    /\ second.run.res.len < second.run.out_len
    /\ second.run.ret.tag = "Some"
    /\ Len(second.run.ret.val) = second.run.res.len

\* C12: safe_secretbox_open prepends exactly SECRETBOX_BOXZEROBYTES zero
\* bytes to the ciphertext before calling the primitive (the amount
\* safe_secretbox stripped) and, on primitive success, strips exactly
\* SECRETBOX_ZEROBYTES bytes from the primitive's output (the amount
\* safe_secretbox prepended).
C12_SecretboxOpenPadding ==
    second.op = "safe_secretbox_open" =>
        /\ Len(second.run.input) = Len(second.input) + SECRETBOX_BOXZEROBYTES
        /\ AllZero(SubSeq(second.run.input, 1, SECRETBOX_BOXZEROBYTES))
        /\ After(second.run.input, SECRETBOX_BOXZEROBYTES) = second.input
        /\ (second.run.prim = "Ok" =>
              second.run.ret = Some(After(second.run.res.buf, SECRETBOX_ZEROBYTES)))
        /\ (first.op = "safe_secretbox" /\ second.source = "sealed" =>
              /\ Len(second.run.input) - Len(second.input)
                   = Len(first.run.input) - Len(first.run.ret.val)
              /\ (second.run.prim = "Ok" =>
                    Len(second.run.res.buf) - Len(second.run.ret.val)
                      = Len(first.run.input) - Len(value)))

C12_Witness ==
    /\ first.op = "safe_secretbox"
    /\ second.op = "safe_secretbox_open" /\ second.source = "sealed"
    /\ second.run.prim = "Ok"
    /\ Len(second.run.input) = Len(second.input) + 16
    /\ second.run.ret.tag = "Some"
    /\ Len(second.run.res.buf) - Len(second.run.ret.val) = 32
    /\ \E i \in 1..Len(value) : value[i] # 0

====
